---- MODULE Spec2Model ----
(***************************************************************************)
(* A model of the nsapi client runtime (src/nsapi/core.py and              *)
(* src/nsapi/resources.py): the rate limiter and the transport built on    *)
(* it, the entity handles, the Auth of a Nation and the two-phase command  *)
(* protocol, paginated retrieval of trades and happenings, the resource    *)
(* manager that decides when a dump file is downloaded, and the streaming  *)
(* iteration over a dump.                                                  *)
(*                                                                         *)
(* Time is counted in whole ticks.  The client is single-threaded and      *)
(* blocking, so each operation is one action; an operation that sends      *)
(* several requests (execute_command, trades, happenings) is one action    *)
(* per request, its position kept in state.                                *)
(***************************************************************************)
EXTENDS Integers, Sequences, FiniteSets, TLC

\* ------------------------------------------------------------- bounds
MaxLimit == 2        \* RateLimiter.requestLimit is drawn from 1..MaxLimit
MaxCooldown == 2     \* RateLimiter.cooldownPeriod is drawn from 1..MaxCooldown
MaxSpace == 1        \* RateLimiter.spacePeriod is drawn from 0..MaxSpace
MaxCount == 2        \* counts passed to update / reported by the server: 0..MaxCount
MaxClock == 3        \* no operation starts once time.time() has passed MaxClock
MaxLatency == 1      \* ticks an HTTP GET may take: 0..MaxLatency
MaxPageLimit == 2    \* the response limit of a paginated shard: 1..MaxPageLimit
MaxItems == 4        \* items a mock server holds: 0..MaxItems
MaxKey == 3          \* trade timestamps and happening ids: 1..MaxKey
TicksPerDay == 3     \* the resolution of datetime.utcnow(): ticks in one day
MaxNow == 4          \* datetime.utcnow() stays at or below MaxNow ticks
MaxCalls == 2        \* update calls counted in one run of repeated calls
MaxNodes == 3        \* elements below the root of a dump document: 0..MaxNodes
MaxStamp == 7        \* datetimes handed to DailyResource.outdated: 0..MaxStamp

\* DumpManager.generationTime, as a tick of the day
generationTime == 1

\* ------------------------------------------------------------- state
VARIABLES
    \* RateLimiter fields (core.py 114-121)
    requestLimit, cooldownPeriod, spacePeriod, lockTime, count,
    \* time.time(), and the argument of the last time.sleep (0: wait did not sleep)
    clock, slept,
    \* the name of the last operation that ran
    last,
    \* the HTTP ledger: [waited, lastGetWaited, via]
    http,
    \* the files on disk: path -> "absent" | "complete" | "errorbody" | "partial"
    files,
    \* Nation.auth: [present, pin, autologin, password] (core.py 348-373, 404)
    auth,
    \* how the last handle operation ended: [op, handle, status, outcome, value, message]
    result,
    \* the requests the last handle operation sent, in order:
    \* [query, headers, reply, replyPin]
    sent,
    \* the position of Nation.execute_command: [pc, command, params, token]
    cmd,
    \* what the mock server holds, newest first: a sequence of [key, n]
    server,
    \* Card.tradeResponseLimit / World.happeningsResponseLimit
    responseLimit,
    \* the position and locals of Card.trades / World.happenings
    pg,
    \* the marker store on disk: [state, entries], entries: name -> ISO string
    markerFile,
    \* how the last ResourceManager.update at this clock value ended:
    \* [name, path, outcome, downloaded]
    res,
    \* the current run of repeated update calls that returned, all for one
    \* resource and path while the clock stood still: [name, path, calls, first, later]
    run,
    \* one pass of DumpManager.retrieve_iterator over a dump:
    \* [doc, tags, damage, pos, status, yielded, retained, open]
    iterator,
    \* one call of DailyResource.outdated: [previous, current, updateTime, done, result]
    outdatedCall,
    \* the processes running ResourceManager.update on one marker file:
    \* process -> [pc, resource, branch, marker, outcome, sawSaved, savedFirst]
    procs

rlVars == <<requestLimit, cooldownPeriod, spacePeriod, lockTime, count, clock, slept, last, http>>
apiVars == <<auth, result, sent, cmd>>
pgVars == <<server, responseLimit, pg>>
resVars == <<markerFile, res, run, iterator, outdatedCall, procs>>
vars == <<rlVars, files, apiVars, pgVars, resVars>>

\* Optional[int]: None is the empty sequence, an int c is <<c>>
None == <<>>
Some(c) == <<c>>
OptCounts == {None} \cup {Some(c) : c \in 0..MaxCount}

\* Python truthiness of an Optional[int] (None and 0 are falsy)
Truthy(oc) == oc # None /\ oc[1] # 0

Max(a, b) == IF a >= b THEN a ELSE b

\* ------------------------------------------------------------- RateLimiter

\* RateLimiter.update, the count kept after `if count: self.count = count`
update_count(cnt, oc) == IF Truthy(oc) THEN oc[1] ELSE cnt

\* RateLimiter.update, the lock computed from the stored count
update_lockTime_no_space(cnt, limit, cooldown, space, now) ==
    IF cnt >= limit THEN now + cooldown ELSE now
update_lockTime(cnt, limit, cooldown, space, now) ==
    IF cnt >= limit THEN now + cooldown ELSE now + space

\* RateLimiter.wait, the argument handed to time.sleep (0 when it is not called)
wait_sleep_early(now, lock) == IF now < lock THEN lock - now - 1 ELSE 0
wait_sleep(now, lock) == IF now < lock THEN lock - now ELSE 0

\* ------------------------------------------------------------- HTTP ledger
HttpWait(h) == [h EXCEPT !.waited = TRUE]
HttpGet(h, via) == [waited |-> FALSE, lastGetWaited |-> h.waited, via |-> via]

\* ------------------------------------------------------------- resources

\* Resource / DailyResource (resources.py 89-116): name doubles as the default
\* path, daily tells the two staleness policies apart
Resources == {
    [name |-> "nations.xml.gz", daily |-> TRUE],
    [name |-> "cardlist_S1.xml.gz", daily |-> FALSE] }

\* the `target` argument: None, the empty string or an explicit path
Targets == {None, <<"">>, <<"custom.xml.gz">>}

\* the dates archived dumps are asked for, as date.isoformat() gives them
Dates == {"2020-01-01"}

\* DumpManager.archived_dump (resources.py 247-257): archive dumps are static
archived_dump(date, dump) == [name |-> date \o "-" \o dump \o "-xml.gz", daily |-> FALSE]

ArchivePaths == {archived_dump(d, "nations").name : d \in Dates}

Paths == {r.name : r \in Resources} \cup {"custom.xml.gz"} \cup ArchivePaths

\* the disks a run can start from: files left by earlier runs at some of the paths
DiskWith(paths) ==
    {f \in [Paths -> {"absent", "complete"}] : \A p \in Paths \ paths : f[p] = "absent"}

\* ResourceManager.resolve: `target or resource.name`
resolve(resource, target) ==
    IF target # None /\ target[1] # "" THEN target[1] ELSE resource.name

\* what one download can do: a 2xx body fully written, an error page written
\* as if it were the file, a body cut off partway, no connection at all
DownloadOutcomes == {"ok", "errorbody", "partial", "connect_fail"}

\* download_file raises when requests.get or the copy raises
download_raises(o) == o \in {"partial", "connect_fail"}

\* download_file, the state of the file afterwards: open(fileName, "wb") runs
\* once requests.get has returned, whatever the status
download_file_state_no_error_body(before, o) ==
    CASE o = "ok" -> "complete"
      [] o = "partial" -> "partial"
      [] OTHER -> before
download_file_state(before, o) ==
    CASE o = "ok" -> "complete"
      [] o = "errorbody" -> "errorbody"
      [] o = "partial" -> "partial"
      [] OTHER -> before

\* ------------------------------------------------------------- staleness

\* datetime.isoformat / datetime.fromisoformat: a datetime is a tick count, its
\* ISO string the pair <<date, time of day>>
isoformat(dt) == <<dt \div TicksPerDay, dt % TicksPerDay>>
fromisoformat(str) == str[1] * TicksPerDay + str[2]

\* datetime.datetime.combine(date, time)
combine(date, time) == date * TicksPerDay + time

\* DailyResource.outdated (resources.py 118-137)
DailyResource_outdated(previous, current, updateTime) ==
    LET first == combine(previous \div TicksPerDay, updateTime)
        nextUpdate == IF first < previous THEN first + TicksPerDay ELSE first
    IN  current >= nextUpdate

\* Resource.outdated (resources.py 96-109) and its override
outdated(resource, previous, current) ==
    IF resource.daily THEN DailyResource_outdated(previous, current, generationTime)
    ELSE FALSE

\* the marker store: no file, a file json.load rejects, a JSON object
NoMarker == [state |-> "missing", entries |-> <<>>]
CorruptMarker == [state |-> "corrupt", entries |-> <<>>]
NoRes == [name |-> "", path |-> "", outcome |-> "none", downloaded |-> FALSE,
          written |-> None]
NoRun == [name |-> "", path |-> "", calls |-> 0, first |-> 0, later |-> 0]
NoIterator == [doc |-> <<>>, tags |-> None,
               damage |-> [kind |-> "none", at |-> 0, read |-> 0],
               pos |-> 0, status |-> "none", yielded |-> <<>>, retained |-> 0, open |-> 0]
NoCall == [previous |-> 0, current |-> 0, updateTime |-> 0, done |-> FALSE, result |-> FALSE]
NoProcs == <<>>

\* ------------------------------------------------------------- transport

Statuses == {200, 403, 404, 500}

\* a server reply to NSRequester.request: fail is a transport exception raised
\* by requests.get; seen is the X-Ratelimit-Requests-Seen header
PlainResponses == [fail : BOOLEAN, status : Statuses, seen : OptCounts]

\* NSRequester.request, how the call ends
request_outcome(resp) ==
    IF resp.fail THEN "ConnectionError"
    ELSE IF resp.seen = None THEN "KeyError"
    ELSE "returned"

\* NSRequester.request (core.py 200-209): wait on the limiter, GET, update the
\* limiter from the header, on the limiter and the clock
TransportNoWait(resp, lat) ==
    LET back == clock + lat
        upd == request_outcome(resp) = "returned"
        cnt == IF upd THEN update_count(count, resp.seen) ELSE count
    IN  /\ slept' = 0
        /\ clock' = back
        /\ http' = HttpGet(http, "request")
        /\ count' = cnt
        /\ lockTime' = IF upd
                       THEN update_lockTime(cnt, requestLimit, cooldownPeriod, spacePeriod, back)
                       ELSE lockTime
        /\ last' = "request"
        /\ UNCHANGED <<requestLimit, cooldownPeriod, spacePeriod>>

Transport(resp, lat) ==
    LET s == wait_sleep(clock, lockTime)
        back == clock + s + lat
        upd == request_outcome(resp) = "returned"
        cnt == IF upd THEN update_count(count, resp.seen) ELSE count
    IN  /\ slept' = s
        /\ clock' = back
        /\ http' = HttpGet(HttpWait(http), "request")
        /\ count' = cnt
        /\ lockTime' = IF upd
                       THEN update_lockTime(cnt, requestLimit, cooldownPeriod, spacePeriod, back)
                       ELSE lockTime
        /\ last' = "request"
        /\ UNCHANGED <<requestLimit, cooldownPeriod, spacePeriod>>

\* ------------------------------------------------------------- handles

\* an XML element with its text (None for an empty element)
Child(tag, text) == [tag |-> tag, text |-> text]

\* the children of a response's root element
ChildLists == {
    <<>>,
    <<Child("SUCCESS", <<"tok1">>)>>,
    <<Child("SUCCESS", <<"tok2">>)>>,
    <<Child("SUCCESS", None)>>,
    <<Child("ERROR", <<"msg">>)>>,
    <<Child("ERROR", None)>>,
    <<Child("ERROR", <<"msg">>), Child("SUCCESS", <<"tok1">>)>>,
    <<Child("ISSUE", <<"msg">>)>> }

\* response.text: XML that parses to a root with children, or text that does not parse
Malformed == [wellformed |-> FALSE, children |-> <<>>]
Bodies == {Malformed} \cup {[wellformed |-> TRUE, children |-> c] : c \in ChildLists}

\* an optional response header: absent, present and empty, present with a value
HeaderValues == {None, <<"">>, <<"v1">>}

\* a GET that raised: no response at all
NoResponse == [fail |-> TRUE, status |-> 200, seen |-> None, pin |-> None,
               autologin |-> None, body |-> Malformed]

\* replies to a plain shard request: the body is not looked at
ShardResponses ==
    {NoResponse} \cup
    [fail : {FALSE}, status : Statuses, seen : {None, Some(1)},
     pin : {None, <<"v1">>}, autologin : {None}, body : {Malformed}]

\* replies to the two requests of a command: the session headers play no part
CommandResponses ==
    {NoResponse} \cup
    [fail : {FALSE}, status : Statuses, seen : {None, Some(1)},
     pin : {None}, autologin : {None}, body : Bodies]

Handles == {"nation", "region", "world", "wa", "card"}

\* API._key and its overrides in World and Card (core.py 283-285, 635-636, 719-720)
_key(h) ==
    CASE h = "world" -> {}
      [] h = "card" -> {<<"cardid", "1">>, <<"season", "1">>}
      [] OTHER -> {<<h, "name">>}

NoAuth == [present |-> FALSE, pin |-> "", autologin |-> "", password |-> ""]
Auths == {NoAuth,
          [present |-> TRUE, pin |-> "", autologin |-> "a0", password |-> ""],
          [present |-> TRUE, pin |-> "", autologin |-> "", password |-> "pw"]}

\* Auth.headers, and Nation._headers which sends none without an Auth
Auth_headers(a) ==
    {<<"X-Pin", a.pin>>, <<"X-Autologin", a.autologin>>, <<"X-Password", a.password>>}
Nation_headers(a) == IF a.present THEN Auth_headers(a) ELSE {}

\* Auth.update: a header that is present is copied, whatever its value
Auth_update(a, resp) ==
    [a EXCEPT !.pin = IF resp.pin # None THEN resp.pin[1] ELSE @,
              !.autologin = IF resp.autologin # None THEN resp.autologin[1] ELSE @]

\* API.shards_response (core.py 291-306): the requester's response as it is
API_outcome(resp) == request_outcome(resp)

\* Nation.shards_response (core.py 425-436): the status check on the response
Nation_outcome(resp) ==
    IF request_outcome(resp) # "returned" THEN request_outcome(resp)
    ELSE IF resp.status >= 400
         THEN CASE resp.status = 404 -> "ResourceError"
                [] resp.status = 403 -> "AuthError"
                [] OTHER -> "APIError"
         ELSE "returned"

shards_response_outcome(h, resp) ==
    IF h = "nation" THEN Nation_outcome(resp) ELSE API_outcome(resp)

\* the status a caller can read off what it got (0: no response at all)
StatusOf(resp) == IF resp.fail THEN 0 ELSE resp.status

NoResult == [op |-> "none", handle |-> "none", status |-> 0, outcome |-> "none",
             phase |-> "none", value |-> Malformed, message |-> None]
IdleCmd == [pc |-> "idle", command |-> "", params |-> {}, token |-> ""]

\* what one shards_response call does to the Auth of the handle
auth_after_any_status(h, resp) ==
    IF h = "nation" /\ auth.present /\ request_outcome(resp) = "returned"
    THEN Auth_update(auth, resp) ELSE auth
auth_after(h, resp) ==
    IF h = "nation" /\ auth.present /\ Nation_outcome(resp) = "returned"
    THEN Auth_update(auth, resp) ELSE auth

\* <handle>.shards_response(shard) answered with resp
shards_response_call(h, shard, resp) ==
    /\ Transport(resp, 0)
    /\ sent' = << [query |-> _key(h) \cup {<<"q", shard>>},
                   headers |-> IF h = "nation" THEN Nation_headers(auth) ELSE {},
                   reply |-> resp.body, replyPin |-> resp.pin] >>
    /\ result' = [op |-> "shards_response", handle |-> h, status |-> StatusOf(resp),
                  outcome |-> shards_response_outcome(h, resp), phase |-> "none",
                  value |-> Malformed, message |-> None]
    /\ auth' = auth_after(h, resp)

\* <handle>.shards_response(shard): Nation, Region, World, WA, Card
shards_response(h) ==
    /\ clock <= MaxClock
    /\ cmd.pc = "idle"
    /\ \E resp \in ShardResponses : shards_response_call(h, "shard", resp)
    /\ cmd' = IdleCmd
    /\ UNCHANGED <<files, pgVars, resVars>>

\* ------------------------------------------------------------- Auth

\* replies to a request of an authenticated Nation: the session headers X-Pin and
\* X-Autologin absent or present, the body not looked at; 204 is a status that
\* is ok without being 200
AuthResponses ==
    {NoResponse} \cup
    [fail : {FALSE}, status : Statuses \cup {204}, seen : {None, Some(1)},
     pin : {None, <<"v1">>}, autologin : HeaderValues, body : {Malformed}]

\* replies to Nation.standard: the body is parsed, the session headers play no
\* part beyond being there
StandardResponses ==
    {NoResponse} \cup
    [fail : {FALSE}, status : Statuses, seen : {None, Some(1)},
     pin : {None, <<"v1">>}, autologin : {None},
     body : {Malformed, [wellformed |-> TRUE, children |-> <<>>]}]

\* Nation.shards_response(shard) on a Nation handle
Nation_shards_response ==
    /\ clock <= MaxClock
    /\ \E resp \in AuthResponses : shards_response_call("nation", "shard", resp)
    /\ UNCHANGED <<files, cmd, pgVars, resVars>>

\* Nation.standard (core.py 475-479): requester.parameter_request(nation=name),
\* past shards_response and so past _headers and Auth.update
Nation_standard ==
    /\ clock <= MaxClock
    /\ \E resp \in StandardResponses :
         /\ Transport(resp, 0)
         /\ sent' = << [query |-> _key("nation"), headers |-> {},
                        reply |-> resp.body, replyPin |-> resp.pin] >>
         /\ result' = [op |-> "standard", handle |-> "nation", status |-> StatusOf(resp),
                       outcome |-> IF request_outcome(resp) # "returned"
                                   THEN request_outcome(resp)
                                   ELSE IF ~resp.body.wellformed THEN "ValueError:parse"
                                   ELSE "returned",
                       phase |-> "none", value |-> Malformed, message |-> None]
    /\ UNCHANGED <<files, auth, cmd, pgVars, resVars>>

\* Nation.get_autologin (core.py 452-473): the requests it sends
get_autologin_always_pings(a) == 1
get_autologin_requests(a) == IF a.present /\ a.autologin = "" THEN 1 ELSE 0

\* Nation.ping / get_autologin after the ping response: how the call ends
ping_outcome(resp) ==
    IF Nation_outcome(resp) # "returned" THEN Nation_outcome(resp)
    ELSE IF resp.status # 200 THEN "ValueError:auth"
    ELSE "returned"

\* Nation.get_autologin(); message carries the string it returns
Nation_get_autologin ==
    /\ clock <= MaxClock
    /\ IF ~auth.present
       THEN /\ result' = [op |-> "get_autologin", handle |-> "nation", status |-> 0,
                          outcome |-> "TypeError", phase |-> "none", value |-> Malformed,
                          message |-> None]
            /\ sent' = <<>>
            /\ UNCHANGED <<rlVars, auth>>
       ELSE IF get_autologin_requests(auth) = 0
       THEN /\ result' = [op |-> "get_autologin", handle |-> "nation", status |-> 0,
                          outcome |-> "returned", phase |-> "none", value |-> Malformed,
                          message |-> Some(auth.autologin)]
            /\ sent' = <<>>
            /\ UNCHANGED <<rlVars, auth>>
       ELSE \E resp \in AuthResponses :
            /\ Transport(resp, 0)
            /\ sent' = << [query |-> _key("nation") \cup {<<"q", "ping">>},
                           headers |-> Nation_headers(auth),
                           reply |-> resp.body, replyPin |-> resp.pin] >>
            /\ auth' = auth_after("nation", resp)
            /\ result' = [op |-> "get_autologin", handle |-> "nation",
                          status |-> StatusOf(resp), outcome |-> ping_outcome(resp),
                          phase |-> "none", value |-> Malformed,
                          message |-> IF ping_outcome(resp) = "returned"
                                      THEN Some(auth'.autologin) ELSE None]
    /\ UNCHANGED <<files, cmd, pgVars, resVars>>

\* ------------------------------------------------------------- execute_command

Commands == {"giftcard"}

\* **parameters of execute_command: a dict as a set of <<key, value>>
ParamSets == { {}, {<<"cardid", "7">>, <<"to", "x">>}, {<<"token", "mine">>},
               {<<"mode", "execute">>} }

Keys(d) == {kv[1] : kv \in d}

\* a keyword passed both by name and in **parameters: TypeError at the call
Clash(named, params) == Keys(params) \cap named # {}

\* content of a node: `node.text if node.text else ""`
prepare_token_blank(node) == ""
prepare_token(node) == IF node.text # None /\ node.text[1] # "" THEN node.text[1] ELSE ""

\* the query of the prepare request (core.py 588-590)
prepare_query(command, params) ==
    _key("nation") \cup params \cup {<<"c", command>>, <<"mode", "prepare">>}

\* the query of the execute request (core.py 603-605)
execute_query(command, params, token) ==
    _key("nation") \cup params \cup {<<"c", command>>, <<"mode", "execute">>, <<"token", token>>}

\* Nation.execute_command after the prepare response (core.py 588-605): how the
\* call goes on
prepare_outcome(params, resp) ==
    IF Nation_outcome(resp) # "returned" THEN Nation_outcome(resp)
    ELSE IF ~resp.body.wellformed THEN "ValueError:parse"
    ELSE IF resp.body.children = <<>> THEN "IndexError"
    ELSE IF resp.body.children[1].tag # "SUCCESS" THEN "ValueError:command"
    ELSE IF Clash({"token"}, params) THEN "TypeError"
    ELSE "prepared"

\* Nation.execute_command after the execute response (core.py 606)
execute_outcome(resp) ==
    IF Nation_outcome(resp) # "returned" THEN Nation_outcome(resp)
    ELSE IF ~resp.body.wellformed THEN "ValueError:parse"
    ELSE "returned"

\* Nation.execute_command, up to and including the prepare response
execute_command_prepare ==
    /\ clock <= MaxClock
    /\ cmd.pc = "idle"
    /\ \E command \in Commands, params \in ParamSets :
         IF Clash({"c", "headers", "mode"}, params)
         THEN /\ result' = [op |-> "execute_command", handle |-> "nation", status |-> 0,
                            outcome |-> "TypeError", phase |-> "prepare",
                            value |-> Malformed, message |-> None]
              /\ sent' = <<>>
              /\ cmd' = IdleCmd
              /\ UNCHANGED <<rlVars, auth>>
         ELSE \E resp \in CommandResponses :
              LET out == prepare_outcome(params, resp)
                  rejected == out = "ValueError:command"
              IN  /\ Transport(resp, 0)
                  /\ sent' = << [query |-> prepare_query(command, params),
                                 headers |-> Nation_headers(auth), reply |-> resp.body,
                                 replyPin |-> resp.pin] >>
                  /\ auth' = auth_after("nation", resp)
                  /\ result' = [op |-> "execute_command", handle |-> "nation",
                                status |-> StatusOf(resp), outcome |-> out,
                                phase |-> "prepare", value |-> Malformed,
                                message |-> IF rejected THEN resp.body.children[1].text
                                            ELSE None]
                  /\ cmd' = IF out = "prepared"
                            THEN [pc |-> "execute", command |-> command, params |-> params,
                                  token |-> prepare_token(resp.body.children[1])]
                            ELSE IdleCmd
    /\ UNCHANGED <<files, pgVars, resVars>>

\* Nation.execute_command, the execute request and the return
execute_command_execute ==
    /\ cmd.pc = "execute"
    /\ \E resp \in CommandResponses :
         /\ Transport(resp, 0)
         /\ sent' = Append(sent, [query |-> execute_query(cmd.command, cmd.params, cmd.token),
                                  headers |-> Nation_headers(auth), reply |-> resp.body,
                                  replyPin |-> resp.pin])
         /\ auth' = auth_after("nation", resp)
         /\ result' = [op |-> "execute_command", handle |-> "nation",
                       status |-> StatusOf(resp), outcome |-> execute_outcome(resp),
                       phase |-> "execute",
                       value |-> IF execute_outcome(resp) = "returned" THEN resp.body
                                 ELSE Malformed,
                       message |-> None]
    /\ cmd' = [cmd EXCEPT !.pc = "idle"]
    /\ UNCHANGED <<files, pgVars, resVars>>

\* ------------------------------------------------------------- pagination

IdlePg == [pc |-> "idle", kind |-> "none", safe |-> TRUE, param |-> None,
           root |-> <<>>, rootList |-> <<>>, cursors |-> <<>>,
           outcome |-> "none", yielded |-> <<>>, iterError |-> FALSE]

Min(a, b) == IF a <= b THEN a ELSE b

RECURSIVE Flatten(_)
\* itertools.chain.from_iterable(rootList)
Flatten(pages) == IF pages = <<>> THEN <<>> ELSE Head(pages) \o Flatten(Tail(pages))

\* the mock server: the items strictly older than the cursor (all of them
\* without one), newest first, cut at the server's hard limit
ServerPage(srv, cursor, limit) ==
    LET older(it) == cursor = None \/ it.key < cursor[1]
        cand == SelectSeq(srv, older)
    IN  SubSeq(cand, 1, Min(limit, Len(cand)))

\* the loop test of trades / happenings (core.py 665, 754) on the last page
more_pages_nonempty(root, limit) == Len(root) > 0
more_pages(root, limit) == Len(root) = limit

\* the cursor of the follow-up request: the timestamp (trades) or the id
\* (happenings) of root[-1]
next_cursor(root) == Some(root[Len(root)].key)

\* Happening has no from_xml (models.py 41-60): evaluating Happening.from_xml
\* raises AttributeError; Trade.from_xml exists (models.py 189-200)
has_from_xml(kind) == kind = "trades"

\* the reply to one page request, as the limiter sees it
PageResponse(ok) == [fail |-> ~ok, status |-> 200, seen |-> Some(1)]

\* Card.trades / World.happenings up to the first page (core.py 661-662, 752-753)
fetch_first ==
    /\ pg.pc = "idle"
    /\ \E kind \in {"trades", "happenings"}, safe \in BOOLEAN, ok \in BOOLEAN,
          param \in {None} \cup {Some(k) : k \in 1..MaxKey} :
         \* happening ids are unique
         /\ kind = "happenings" =>
              \A i, j \in 1..Len(server) : i # j => server[i].key # server[j].key
         /\ Transport(PageResponse(ok), 0)
         /\ LET root == ServerPage(server, param, responseLimit)
            IN  pg' = IF ok
                      THEN [pc |-> "loop", kind |-> kind, safe |-> safe, param |-> param,
                            root |-> root, rootList |-> <<root>>, cursors |-> <<param>>,
                            outcome |-> "none", yielded |-> <<>>, iterError |-> FALSE]
                      ELSE [pc |-> "done", kind |-> kind, safe |-> safe, param |-> param,
                            root |-> <<>>, rootList |-> <<>>, cursors |-> <<param>>,
                            outcome |-> "ConnectionError", yielded |-> <<>>,
                            iterError |-> FALSE]
    /\ UNCHANGED <<files, apiVars, server, responseLimit, resVars>>

\* one turn of the while loop (core.py 665-671, 754-760)
fetch_next ==
    /\ pg.pc = "loop"
    /\ ~pg.safe /\ more_pages(pg.root, responseLimit)
    /\ IF ~has_from_xml(pg.kind)
       THEN \* Happening.from_xml(root[-1]) raises before anything is sent
            /\ pg' = [pg EXCEPT !.pc = "done", !.outcome = "AttributeError"]
            /\ UNCHANGED rlVars
       ELSE IF pg.param # None
       THEN \* beforetime in **parameters and by name: TypeError at the call
            /\ pg' = [pg EXCEPT !.pc = "done", !.outcome = "TypeError"]
            /\ UNCHANGED rlVars
       ELSE \E ok \in BOOLEAN :
            /\ Transport(PageResponse(ok), 0)
            /\ LET cursor == next_cursor(pg.root)
                   root == ServerPage(server, cursor, responseLimit)
               IN  pg' = IF ok
                         THEN [pg EXCEPT !.root = root,
                                         !.rootList = Append(@, root),
                                         !.cursors = Append(@, cursor)]
                         ELSE [pg EXCEPT !.pc = "done", !.outcome = "ConnectionError",
                                         !.cursors = Append(@, cursor)]
    /\ UNCHANGED <<files, apiVars, server, responseLimit, resVars>>

\* the loop ends and the generator is returned and consumed (core.py 673-675,
\* 762-764)
fetch_return ==
    /\ pg.pc = "loop"
    /\ ~(~pg.safe /\ more_pages(pg.root, responseLimit))
    /\ pg' = [pg EXCEPT !.pc = "done", !.outcome = "returned",
                        !.yielded = IF has_from_xml(pg.kind) THEN Flatten(pg.rootList)
                                    ELSE <<>>,
                        !.iterError = ~has_from_xml(pg.kind) /\ Flatten(pg.rootList) # <<>>]
    /\ UNCHANGED <<rlVars, files, apiVars, server, responseLimit, resVars>>

\* the key sequences a server can hold: newest first, so never increasing
KeySeqs ==
    { ks \in UNION {[1..n -> 1..MaxKey] : n \in 0..MaxItems} :
        \A i \in 1..(Len(ks) - 1) : ks[i] >= ks[i + 1] }

\* a requester, a handle with its response limit, and a mock server
InitPage ==
    /\ requestLimit = MaxLimit
    /\ cooldownPeriod = MaxCooldown
    /\ spacePeriod = MaxSpace
    /\ lockTime = 0
    /\ count = 0
    /\ clock = 0
    /\ slept = 0
    /\ last = "init"
    /\ http = [waited |-> FALSE, lastGetWaited |-> FALSE, via |-> "none"]
    /\ files = [p \in Paths |-> "absent"]
    /\ auth = NoAuth
    /\ result = NoResult
    /\ sent = <<>>
    /\ cmd = IdleCmd
    /\ \E ks \in KeySeqs : server = [i \in 1..Len(ks) |-> [key |-> ks[i], n |-> i]]
    /\ responseLimit \in 1..MaxPageLimit
    /\ pg = IdlePg
    /\ markerFile = NoMarker
    /\ res = NoRes
    /\ run = NoRun
    /\ iterator = NoIterator
    /\ outdatedCall = NoCall
    /\ procs = NoProcs

NextPage ==
    \/ fetch_first
    \/ fetch_next
    \/ fetch_return

SpecPage == InitPage /\ [][NextPage]_vars

\* ------------------------------------------------------------- claims C7-C9

\* the number of requests the call sent, and of items the server delivered
Requests == Len(pg.cursors)
Delivered == Len(Flatten(pg.rootList))
Finished == pg.pc = "done" /\ pg.outcome # "ConnectionError"

\* C7 (as claimed): without safe, a further request follows a page exactly when
\* the page is full, with the cursor of the page's last item, and fetching ends
\* at the first page that is not full; with safe exactly one request is sent
C7_LoopOnFullPages ==
    (Finished /\ pg.param = None)
      => /\ pg.outcome = "returned"
         /\ pg.safe => Requests = 1
         /\ ~pg.safe =>
              /\ \A i \in 1..(Requests - 1) :
                    /\ Len(pg.rootList[i]) = responseLimit
                    /\ pg.cursors[i + 1] = Some(pg.rootList[i][responseLimit].key)
              /\ Len(pg.rootList[Requests]) < responseLimit

\* C8 (as claimed): without safe, ceil(totalItems / pageLimit) requests are sent
C8_CeilRequests ==
    (Finished /\ pg.outcome = "returned" /\ ~pg.safe /\ pg.param = None)
      => Requests * responseLimit >= Len(server)
         /\ (Requests - 1) * responseLimit < Len(server)

DistinctKeys == \A i, j \in 1..Len(server) : i # j => server[i].key # server[j].key

\* C8 (amended): a call without safe that returns has sent floor(d / pageLimit)
\* + 1 requests, d being the number of items delivered; d is totalItems when
\* the caller passed no cursor and no two items share a cursor key
C8_FloorPlusOne ==
    (Finished /\ pg.outcome = "returned" /\ ~pg.safe)
      => /\ Requests = (Delivered \div responseLimit) + 1
         /\ (pg.param = None /\ DistinctKeys) => Delivered = Len(server)

\* two full pages and an empty third one
C8_Witness ==
    /\ Finished /\ pg.outcome = "returned" /\ ~pg.safe /\ pg.param = None
    /\ DistinctKeys /\ Len(server) = 2 * responseLimit /\ Requests = 3

\* C9 (as claimed): without safe, trades returns every item of the server
\* exactly once, in the order of the pages
C9_EveryItemOnce ==
    (Finished /\ ~pg.safe /\ pg.param = None /\ pg.kind = "trades")
      => /\ pg.outcome = "returned"
         /\ pg.yielded = Flatten(pg.rootList)
         /\ pg.yielded = server

\* ------------------------------------------------------------- limiter actions

\* RateLimiter.update(count)
RateLimiter_update(oc) ==
    /\ clock <= MaxClock
    /\ count' = update_count(count, oc)
    /\ lockTime' = update_lockTime(count', requestLimit, cooldownPeriod, spacePeriod, clock)
    /\ last' = "update"
    /\ UNCHANGED <<requestLimit, cooldownPeriod, spacePeriod, clock, slept, http, files, apiVars, pgVars, resVars>>

\* RateLimiter.wait()
RateLimiter_wait ==
    /\ clock <= MaxClock
    /\ slept' = wait_sleep(clock, lockTime)
    /\ clock' = clock + slept'
    /\ last' = "wait"
    /\ http' = HttpWait(http)
    /\ UNCHANGED <<requestLimit, cooldownPeriod, spacePeriod, lockTime, count, files, apiVars, pgVars, resVars>>

\* time passing between operations
Tick ==
    /\ clock < MaxClock
    /\ clock' = clock + 1
    /\ last' = "tick"
    /\ UNCHANGED <<requestLimit, cooldownPeriod, spacePeriod, lockTime, count, slept, http, files, apiVars, pgVars, resVars>>

\* NSRequester.request(api, headers)
NSRequester_request ==
    /\ clock <= MaxClock
    /\ \E resp \in PlainResponses, lat \in 0..MaxLatency : Transport(resp, lat)
    /\ UNCHANGED <<files, apiVars, pgVars, resVars>>

\* ResourceManager.download(resource, target) -> download_file (resources.py 45-54,
\* 163-170): a GET that consults no limiter
ResourceManager_download ==
    /\ clock <= MaxClock
    /\ \E r \in Resources, t \in Targets, o \in DownloadOutcomes :
         /\ files' = [files EXCEPT ![resolve(r, t)] = download_file_state(@, o)]
         /\ http' = HttpGet(http, "download")
         /\ last' = "download"
    /\ UNCHANGED <<requestLimit, cooldownPeriod, spacePeriod, lockTime, count, clock, slept, apiVars, pgVars, resVars>>

\* ResourceManager.update, the branch taken (resources.py 192-214)
update_branch(r) ==
    IF markerFile.state = "missing" THEN "no_marker"
    ELSE IF markerFile.state = "corrupt" THEN "JSONDecodeError"
    ELSE IF r.name \notin DOMAIN markerFile.entries THEN "no_entry"
    ELSE IF outdated(r, fromisoformat(markerFile.entries[r.name]), clock) THEN "outdated"
    ELSE "verify"

\* ResourceManager.update / verify: whether download is called
update_downloads_no_verify(r, t) ==
    update_branch(r) \in {"no_marker", "no_entry", "outdated"}
update_downloads(r, t) ==
    \/ update_branch(r) \in {"no_marker", "no_entry", "outdated"}
    \/ update_branch(r) = "verify" /\ files[resolve(r, t)] = "absent"

\* ResourceManager.update, the dict `marker` held when the branch is over
\* (resources.py 199-214)
update_marker_new_dict(r) ==
    IF update_branch(r) \in {"no_marker", "no_entry", "outdated"}
    THEN (r.name :> isoformat(clock))
    ELSE markerFile.entries
update_marker(r) ==
    LET branch == update_branch(r)
    IN  IF branch = "no_marker" THEN (r.name :> isoformat(clock))
        ELSE IF branch \in {"no_entry", "outdated"}
        THEN (r.name :> isoformat(clock)) @@ markerFile.entries
        ELSE markerFile.entries

\* ResourceManager.update, whether `json.dump(marker, f)` runs (resources.py
\* 216-218): always, once nothing above it raised
update_saves_on_change(branch, outcome) == outcome = "returned" /\ branch # "verify"
update_saves(branch, outcome) == outcome = "returned"

\* ResourceManager.update(resource, target), o being what the download does
update(r, t, o) ==
      LET branch == update_branch(r)
          dl == update_downloads(r, t)
          outcome == IF branch = "JSONDecodeError" THEN branch
                     ELSE IF dl /\ download_raises(o) THEN "RequestException"
                     ELSE "returned"
          sameRun == run.calls > 0 /\ run.name = r.name /\ run.path = resolve(r, t)
          n == IF dl THEN 1 ELSE 0
      IN  /\ sameRun => run.calls < MaxCalls
          /\ files' = IF dl THEN [files EXCEPT ![resolve(r, t)] = download_file_state(@, o)]
                      ELSE files
          /\ http' = IF dl THEN HttpGet(http, "download") ELSE http
          /\ markerFile' = IF update_saves(branch, outcome)
                           THEN [state |-> "json", entries |-> update_marker(r)]
                           ELSE markerFile
          /\ res' = [name |-> r.name, path |-> resolve(r, t), outcome |-> outcome,
                     downloaded |-> dl,
                     written |-> IF update_saves(branch, outcome)
                                 THEN Some(update_marker(r)) ELSE None]
          /\ run' = IF outcome # "returned" THEN NoRun
                    ELSE IF sameRun
                    THEN [run EXCEPT !.calls = @ + 1, !.later = @ + n]
                    ELSE [name |-> r.name, path |-> resolve(r, t), calls |-> 1,
                          first |-> n, later |-> 0]
          /\ last' = "resource_update"
          /\ UNCHANGED <<requestLimit, cooldownPeriod, spacePeriod, lockTime, count, clock,
                         slept, apiVars, pgVars, iterator, outdatedCall, procs>>

\* ResourceManager.verify(resource, target) (resources.py 172-180)
verify(r, t, o) ==
    LET dl == files[resolve(r, t)] = "absent"
    IN  /\ files' = IF dl THEN [files EXCEPT ![resolve(r, t)] = download_file_state(@, o)]
                    ELSE files
        /\ http' = IF dl THEN HttpGet(http, "download") ELSE http
        /\ res' = [name |-> r.name, path |-> resolve(r, t),
                   outcome |-> IF dl /\ download_raises(o) THEN "RequestException"
                               ELSE "returned",
                   downloaded |-> dl, written |-> None]
        /\ run' = NoRun
        /\ last' = "resource_verify"
        /\ UNCHANGED <<requestLimit, cooldownPeriod, spacePeriod, lockTime, count, clock,
                       slept, apiVars, pgVars, markerFile, iterator, outdatedCall, procs>>

\* ResourceManager.update called on one of the current dumps
ResourceManager_update ==
    \E r \in Resources, t \in Targets :
    \E o \in IF update_downloads(r, t) THEN DownloadOutcomes ELSE {"ok"} : update(r, t, o)

\* DumpManager.nations(date, location, update) -> _named_daily_dump (resources.py
\* 311-338) up to the return of the lazy generator
DumpManager_nations ==
    \E date \in {None} \cup {<<d>> : d \in Dates}, location \in Targets, upd \in BOOLEAN :
      LET resource == IF date = None THEN CHOOSE r \in Resources : r.name = "nations.xml.gz"
                      ELSE archived_dump(date[1], "nations")
          dl == IF upd THEN update_downloads(resource, location)
                ELSE files[resolve(resource, location)] = "absent"
      IN  \E o \in IF dl THEN DownloadOutcomes ELSE {"ok"} :
            IF upd THEN update(resource, location, o) ELSE verify(resource, location, o)

\* time passing between two calls of the resource manager: the calls made at
\* one clock value are over
DayTick ==
    /\ clock < MaxNow
    /\ clock' = clock + 1
    /\ res' = NoRes
    /\ run' = NoRun
    /\ last' = "tick"
    /\ UNCHANGED <<requestLimit, cooldownPeriod, spacePeriod, lockTime, count, slept,
                   http, files, apiVars, pgVars, markerFile, iterator,
                   outdatedCall, procs>>

\* the marker stores a first run can find: none, an unreadable one, an empty one
FirstMarkers == {NoMarker, CorruptMarker, [state |-> "json", entries |-> <<>>]}

\* a ResourceManager on a disk where earlier runs may have left files and a marker
InitRes ==
    /\ requestLimit = MaxLimit
    /\ cooldownPeriod = MaxCooldown
    /\ spacePeriod = MaxSpace
    /\ lockTime = 0
    /\ count = 0
    /\ clock = 0
    /\ slept = 0
    /\ last = "init"
    /\ http = [waited |-> FALSE, lastGetWaited |-> FALSE, via |-> "none"]
    /\ files \in DiskWith({r.name : r \in Resources} \cup {"custom.xml.gz"})
    /\ auth = NoAuth
    /\ result = NoResult
    /\ sent = <<>>
    /\ cmd = IdleCmd
    /\ server = <<>>
    /\ responseLimit = 1
    /\ pg = IdlePg
    /\ markerFile \in FirstMarkers
    /\ res = NoRes
    /\ run = NoRun
    /\ iterator = NoIterator
    /\ outdatedCall = NoCall
    /\ procs = NoProcs

NextRes ==
    \/ ResourceManager_update
    \/ DayTick

SpecRes == InitRes /\ [][NextRes]_vars

\* a DumpManager on a disk where earlier runs may have left dumps and a marker
InitDump ==
    /\ requestLimit = MaxLimit
    /\ cooldownPeriod = MaxCooldown
    /\ spacePeriod = MaxSpace
    /\ lockTime = 0
    /\ count = 0
    /\ clock = 0
    /\ slept = 0
    /\ last = "init"
    /\ http = [waited |-> FALSE, lastGetWaited |-> FALSE, via |-> "none"]
    /\ files \in DiskWith({"nations.xml.gz", "custom.xml.gz"} \cup ArchivePaths)
    /\ auth = NoAuth
    /\ result = NoResult
    /\ sent = <<>>
    /\ cmd = IdleCmd
    /\ server = <<>>
    /\ responseLimit = 1
    /\ pg = IdlePg
    /\ markerFile \in FirstMarkers
    /\ res = NoRes
    /\ run = NoRun
    /\ iterator = NoIterator
    /\ outdatedCall = NoCall
    /\ procs = NoProcs

NextDump ==
    \/ DumpManager_nations
    \/ DayTick

SpecDump == InitDump /\ [][NextDump]_vars

\* ------------------------------------------------------------- claim C10

\* C10 (as claimed): while the clock stands still, repeated update calls for one
\* resource and target download at most once in total, and never after the
\* first call
C10_OneDownloadPerWindow ==
    run.calls >= 1 => (run.later = 0 /\ run.first + run.later <= 1)

\* ------------------------------------------------------------- retrieve_iterator

\* a dump document: its elements in the order of their start tags, each with
\* its tag and its depth; the root comes first, at depth 0
ElementTags == {"NATION", "NAME"}
Docs ==
    UNION { { doc \in [1..(n + 1) -> [tag : ElementTags \cup {"NATIONS"}, depth : 0..n]] :
                /\ doc[1] = [tag |-> "NATIONS", depth |-> 0]
                /\ \A k \in 2..(n + 1) : /\ doc[k].tag \in ElementTags
                                          /\ doc[k].depth >= 1
                                          /\ doc[k].depth <= doc[k - 1].depth + 1 }
            : n \in 0..MaxNodes }

\* the `tags` argument: None, an empty container, a container of tags
Filters == {None, <<{}>>, <<{"NATION"}>>}

\* `(not tags) or element.tag in tags` (resources.py 307)
wanted(tags, tag) == tags = None \/ tags[1] = {} \/ tag \in tags[1]

RECURSIVE Closing(_)
\* the end events of the elements still open, innermost first
Closing(stack) ==
    IF stack = <<>> THEN <<>>
    ELSE <<[ev |-> "end", node |-> stack[Len(stack)]]>> \o Closing(SubSeq(stack, 1, Len(stack) - 1))

RECURSIVE EventsFrom(_, _, _)
\* etree.iterparse(dump, events=("start", "end")) on a well-formed document
EventsFrom(doc, k, stack) ==
    IF k > Len(doc) THEN Closing(stack)
    ELSE IF stack # <<>> /\ doc[stack[Len(stack)]].depth >= doc[k].depth
    THEN <<[ev |-> "end", node |-> stack[Len(stack)]]>>
           \o EventsFrom(doc, k, SubSeq(stack, 1, Len(stack) - 1))
    ELSE <<[ev |-> "start", node |-> k]>> \o EventsFrom(doc, k + 1, Append(stack, k))

Events(doc) == EventsFrom(doc, 1, <<>>)

\* what is wrong with the stream: nothing; the XML text is cut or spoilt after
\* the text of `at` events; the gzip data is cut or spoilt there, and the
\* parser was handed the text of only `read` of these events before the read
\* that failed
Damages(doc) ==
    LET L == Len(Events(doc))
    IN  {[kind |-> "none", at |-> L, read |-> L]}
        \cup {[kind |-> "xml", at |-> a, read |-> a] : a \in 0..L}
        \cup UNION { {[kind |-> "gzip", at |-> a, read |-> r] : r \in 0..a} : a \in 0..L }

\* the exception the failing read raises: iterparse raises ParseError, the gzip
\* file object EOFError (cut) or BadGzipFile (spoilt); neither is caught
ErrorOf(kind) == IF kind = "xml" THEN "ParseError" ELSE "EOFError"

\* the elements under construction after i events
Open(ev, i) ==
    {n \in {ev[j].node : j \in 1..i} :
        ~\E j \in 1..i : ev[j].ev = "end" /\ ev[j].node = n}

\* m lies below a in the document
Below(doc, a, m) == a < m /\ \A k \in (a + 1)..m : doc[k].depth > doc[a].depth

\* the elements still referenced after root.clear() (resources.py 309) ran with
\* i events parsed: those under construction, and every element below one of
\* them other than the root, since only the root's children are dropped
Retained(doc, ev, i) ==
    Open(ev, i) \cup {m \in 1..Len(doc) : \E a \in Open(ev, i) \ {1} : Below(doc, a, m)}

\* next() on the generator retrieve_iterator returned: runs to the next yield,
\* to the end of the events, or to the exception
retrieve_iterator_next ==
    /\ iterator.status \in {"created", "suspended"}
    /\ LET doc == iterator.doc
           ev == Events(doc)
           lim == iterator.damage.read
           from == IF iterator.status = "created" THEN 1 ELSE iterator.pos
           hits == {j \in (from + 1)..lim :
                      ev[j].ev = "end" /\ wanted(iterator.tags, doc[ev[j].node].tag)}
           first == CHOOSE j \in hits : \A h \in hits : j <= h
           cleared == [iterator EXCEPT
                         !.retained = IF iterator.status = "suspended"
                                      THEN Cardinality(Retained(doc, ev, iterator.pos)) ELSE @,
                         !.open = IF iterator.status = "suspended"
                                  THEN Cardinality(Open(ev, iterator.pos)) ELSE @]
       IN  iterator' =
             IF hits # {}
             THEN [cleared EXCEPT !.status = "suspended", !.pos = first,
                                  !.yielded = Append(@, ev[first].node)]
             ELSE IF iterator.damage.kind = "none"
             THEN [cleared EXCEPT !.status = "exhausted", !.pos = Len(ev)]
             ELSE [cleared EXCEPT !.status = ErrorOf(iterator.damage.kind), !.pos = lim]
    /\ UNCHANGED <<rlVars, files, apiVars, pgVars, markerFile, res, run, outdatedCall, procs>>

\* DumpManager.retrieve_iterator(resource, location, tags) called on a dump file
InitIter ==
    /\ requestLimit = MaxLimit
    /\ cooldownPeriod = MaxCooldown
    /\ spacePeriod = MaxSpace
    /\ lockTime = 0
    /\ count = 0
    /\ clock = 0
    /\ slept = 0
    /\ last = "init"
    /\ http = [waited |-> FALSE, lastGetWaited |-> FALSE, via |-> "none"]
    /\ files = [p \in Paths |-> "absent"]
    /\ auth = NoAuth
    /\ result = NoResult
    /\ sent = <<>>
    /\ cmd = IdleCmd
    /\ server = <<>>
    /\ responseLimit = 1
    /\ pg = IdlePg
    /\ markerFile = NoMarker
    /\ res = NoRes
    /\ run = NoRun
    /\ \E doc \in Docs, tags \in Filters :
       \E damage \in Damages(doc) :
         iterator = [NoIterator EXCEPT !.doc = doc, !.tags = tags, !.damage = damage,
                                       !.status = "created"]
    /\ outdatedCall = NoCall
    /\ procs = NoProcs

NextIter == retrieve_iterator_next

SpecIter == InitIter /\ [][NextIter]_vars

\* ------------------------------------------------------------- claims C17-C19

\* the elements of doc whose tag is in the set, in the order in which they end
MatchingEnds(doc, set, upTo) ==
    LET ev == Events(doc)
        idx == SelectSeq([j \in 1..upTo |-> j],
                         LAMBDA j : ev[j].ev = "end" /\ doc[ev[j].node].tag \in set)
    IN  [k \in 1..Len(idx) |-> ev[idx[k]].node]

\* C17 (as claimed): over a well-formed dump, iteration with a filter set yields
\* exactly the elements whose tag is in the set, each once, in document order
\* (here the order in which they end), and no other element
C17_ExactlyTheMatching ==
    (iterator.status = "exhausted" /\ iterator.tags # None)
      => iterator.yielded =
           MatchingEnds(iterator.doc, iterator.tags[1], Len(Events(iterator.doc)))

\* no record lies inside another record
RecordsApart(doc) ==
    \A a, m \in 1..Len(doc) :
       (doc[a].tag = "NATION" /\ Below(doc, a, m)) => doc[m].tag # "NATION"

\* C18 (as claimed): iterating with a filter set, once a yielded element is
\* consumed and the root cleared, only the elements under construction are
\* still retained, one per level of depth, however many records came before
\* and whatever the document's shape
C18_RetainedBoundedByDepth ==
    (/\ iterator.tags = <<{"NATION"}>> /\ iterator.damage.kind = "none"
     /\ RecordsApart(iterator.doc))
      => iterator.retained <= iterator.open

\* C19 (as claimed): over a damaged stream iteration ends with a parse error,
\* after every wanted element that ended before the damage was yielded
C19_DamageIsParseError ==
    (iterator.damage.kind # "none" /\ iterator.status \notin {"created", "suspended"})
      => /\ iterator.status = "ParseError"
         /\ \A j \in 1..iterator.damage.at :
               LET e == Events(iterator.doc)[j]
               IN  (e.ev = "end" /\ wanted(iterator.tags, iterator.doc[e.node].tag))
                     => \E k \in 1..Len(iterator.yielded) : iterator.yielded[k] = e.node

\* ------------------------------------------------------------- claim C11

\* the resource an update call was made for
ResourceNamed(n) == CHOOSE r \in Resources : r.name = n

\* C11: with a marker store that is missing or readable, update(resource)
\* downloads and records the current time when the store has no entry for
\* resource.name, downloads and overwrites the entry with the current time when
\* the staleness policy calls the recorded time outdated, and otherwise
\* downloads exactly when no file is at the resolved path and leaves the entry
\* as it was; the entries of other resources are kept
C11_UpdatePolicy ==
    [][(ResourceManager_update /\ markerFile.state # "corrupt")
         => LET n == res'.name
                had == markerFile.state = "json" /\ n \in DOMAIN markerFile.entries
                stale == had /\ outdated(ResourceNamed(n),
                                         fromisoformat(markerFile.entries[n]), clock)
                kept == IF markerFile.state = "json" THEN DOMAIN markerFile.entries ELSE {}
            IN  /\ (~had \/ stale) => res'.downloaded
                /\ (had /\ ~stale) => (res'.downloaded <=> files[res'.path] = "absent")
                /\ res'.outcome = "returned" =>
                      /\ markerFile'.state = "json"
                      /\ DOMAIN markerFile'.entries = kept \cup {n}
                      /\ markerFile'.entries[n] =
                            IF ~had \/ stale THEN isoformat(clock) ELSE markerFile.entries[n]
                      /\ \A m \in kept \ {n} : markerFile'.entries[m] = markerFile.entries[m]
                /\ res'.outcome # "returned" => markerFile' = markerFile]_vars

\* an update found a fresh entry but no file, downloaded, and kept the entry
C11_Witness ==
    /\ last = "resource_update" /\ run.calls >= 1
    /\ res.outcome = "returned" /\ res.downloaded
    /\ markerFile.state = "json" /\ res.name \in DOMAIN markerFile.entries
    /\ fromisoformat(markerFile.entries[res.name]) < clock

\* ------------------------------------------------------------- claim C12

\* C12 (as claimed): update with a marker store that is missing or corrupt does
\* not fail on the store, downloads, and when it returns has written a fresh
\* store holding the resource's entry
C12_BadStoreAsEmpty ==
    [][(ResourceManager_update /\ markerFile.state \in {"missing", "corrupt"})
         => /\ res'.outcome # "JSONDecodeError"
            /\ res'.downloaded
            /\ res'.outcome = "returned" =>
                  /\ markerFile'.state = "json"
                  /\ markerFile'.entries = (res'.name :> isoformat(clock))]_vars

\* ------------------------------------------------------------- claim C13

\* C13 (as claimed): nations(date=d) with a file already at the resolved path
\* downloads nothing, whatever the marker store holds and whatever the time
C13_ArchiveOnlyExistenceChecked ==
    [][(DumpManager_nations /\ res'.name \in ArchivePaths /\ files[res'.path] # "absent")
         => ~res'.downloaded]_vars

\* RateLimiter.__init__ (core.py 105-121) with any constructor arguments; no
\* file on disk yet
Init ==
    /\ requestLimit \in 1..MaxLimit
    /\ cooldownPeriod \in 1..MaxCooldown
    /\ spacePeriod \in 0..MaxSpace
    /\ lockTime = 0
    /\ count = 0
    /\ clock \in 0..1
    /\ slept = 0
    /\ last = "init"
    /\ http = [waited |-> FALSE, lastGetWaited |-> FALSE, via |-> "none"]
    /\ files = [p \in Paths |-> "absent"]
    /\ auth = NoAuth
    /\ result = NoResult
    /\ sent = <<>>
    /\ cmd = IdleCmd
    /\ server = <<>>
    /\ responseLimit = 1
    /\ pg = IdlePg
    /\ markerFile = NoMarker
    /\ res = NoRes
    /\ run = NoRun
    /\ iterator = NoIterator
    /\ outdatedCall = NoCall
    /\ procs = NoProcs

\* the limiter used directly and through the requester, time passing in between
Next ==
    \/ \E oc \in OptCounts : RateLimiter_update(oc)
    \/ RateLimiter_wait
    \/ Tick
    \/ NSRequester_request

Spec == Init /\ [][Next]_vars

\* NSRequester.__init__ (core.py 170-178): one limiter with fixed arguments,
\* here the largest of each range
InitRequester ==
    /\ requestLimit = MaxLimit
    /\ cooldownPeriod = MaxCooldown
    /\ spacePeriod = MaxSpace
    /\ lockTime = 0
    /\ count = 0
    /\ clock \in 0..1
    /\ slept = 0
    /\ last = "init"
    /\ http = [waited |-> FALSE, lastGetWaited |-> FALSE, via |-> "none"]
    /\ files = [p \in Paths |-> "absent"]
    /\ auth = NoAuth
    /\ result = NoResult
    /\ sent = <<>>
    /\ cmd = IdleCmd
    /\ server = <<>>
    /\ responseLimit = 1
    /\ pg = IdlePg
    /\ markerFile = NoMarker
    /\ res = NoRes
    /\ run = NoRun
    /\ iterator = NoIterator
    /\ outdatedCall = NoCall
    /\ procs = NoProcs

\* a requester and a Nation handle with or without an Auth
InitApi ==
    /\ requestLimit = MaxLimit
    /\ cooldownPeriod = MaxCooldown
    /\ spacePeriod = MaxSpace
    /\ lockTime = 0
    /\ count = 0
    /\ clock = 0
    /\ slept = 0
    /\ last = "init"
    /\ http = [waited |-> FALSE, lastGetWaited |-> FALSE, via |-> "none"]
    /\ files = [p \in Paths |-> "absent"]
    /\ auth \in Auths
    /\ result = NoResult
    /\ sent = <<>>
    /\ cmd = IdleCmd
    /\ server = <<>>
    /\ responseLimit = 1
    /\ pg = IdlePg
    /\ markerFile = NoMarker
    /\ res = NoRes
    /\ run = NoRun
    /\ iterator = NoIterator
    /\ outdatedCall = NoCall
    /\ procs = NoProcs

\* shard requests on the five handles
NextApi == \E h \in Handles : shards_response(h)

SpecApi == InitApi /\ [][NextApi]_vars

\* commands on a Nation handle
NextCmd ==
    \/ execute_command_prepare
    \/ execute_command_execute

SpecCmd == InitApi /\ [][NextCmd]_vars

\* requests through a Nation handle and its Auth
NextAuth ==
    \/ Nation_shards_response
    \/ Nation_standard
    \/ Nation_get_autologin

SpecAuth == InitApi /\ [][NextAuth]_vars

\* ------------------------------------------------------------- claims C14-C16

\* C14 (as claimed): an autologin that is known is never replaced by a blank
\* one, whatever the response
C14_AutologinNeverBlanked ==
    [][auth.autologin # "" => auth'.autologin # ""]_vars

\* C15 (as claimed): after a call on an authenticated Nation handle that
\* returned and whose response carried X-Pin = p, the next request sent
\* through the handle carries X-Pin = p
C15_PinSticks ==
    [][(/\ auth.present /\ result.outcome = "returned"
        /\ sent # <<>> /\ sent[Len(sent)].replyPin # None
        /\ sent' # <<>>)
         => <<"X-Pin", sent[Len(sent)].replyPin[1]>> \in sent'[1].headers]_vars

\* NSRequester.request handed the response back to the handle
request_outcome_of_result == result.outcome # "ConnectionError" /\ result.outcome # "KeyError"

\* C16: get_autologin on a handle with an Auth returns a known autologin
\* without any request; with none known it sends exactly one request, a ping
\* carrying the Auth's headers, returns a value only when that probe came back
\* with status 200, and raises AuthError when the probe came back from the
\* requester with status 403
C16_GetAutologin ==
    [][(Nation_get_autologin /\ auth.present)
         => /\ auth.autologin # "" =>
                  /\ sent' = <<>> /\ http' = http /\ auth' = auth
                  /\ result'.outcome = "returned"
                  /\ result'.message = Some(auth.autologin)
            /\ auth.autologin = "" =>
                  /\ Len(sent') = 1
                  /\ <<"q", "ping">> \in sent'[1].query
                  /\ sent'[1].headers = Auth_headers(auth)
                  /\ result'.outcome = "returned" => result'.status = 200
                  /\ (result'.status = 403 /\ request_outcome_of_result') =>
                        result'.outcome = "AuthError"]_vars

\* a probe sent with a password only was rejected
C16_Witness ==
    /\ result.op = "get_autologin" /\ result.outcome = "AuthError" /\ result.status = 403
    /\ Len(sent) = 1 /\ auth.autologin = "" /\ auth.password # ""

\* ------------------------------------------------------------- claims C4-C6

ExpectedKind(status) ==
    CASE status = 404 -> "ResourceError"
      [] status = 403 -> "AuthError"
      [] OTHER -> "APIError"

\* C4 (as claimed): on every handle, a shard request answered with an error
\* status raises: 404 ResourceError, 403 AuthError, any other APIError
C4_ErrorStatusRaises ==
    (result.op = "shards_response" /\ result.status >= 400 /\ result.outcome # "KeyError")
      => result.outcome = ExpectedKind(result.status)

\* C5 (as claimed): a prepare response that parses and whose root has no child
\* or a first child other than SUCCESS ends the call with the command error
\* carrying the server's message, and no mode=execute request is sent
C5_RejectedPrepare ==
    (/\ result.op = "execute_command" /\ result.phase = "prepare" /\ Len(sent) = 1
     /\ result.status = 200 /\ result.outcome # "KeyError"
     /\ sent[1].reply.wellformed
     /\ \/ sent[1].reply.children = <<>>
        \/ sent[1].reply.children[1].tag # "SUCCESS")
      => /\ result.outcome = "ValueError:command"
         /\ sent[1].reply.children # <<>> => result.message = sent[1].reply.children[1].text
         /\ cmd.pc = "idle"
         /\ <<"mode", "execute">> \notin sent[1].query

\* a query without the keys the protocol adds
Strip(q) == {kv \in q : kv[1] \notin {"mode", "token"}}

\* C6: a command that returns has sent exactly two requests, mode=prepare then
\* mode=execute; the second carries the text of the SUCCESS element of the
\* first reply as its token and otherwise the same command and parameters, and
\* the parsed second reply is the return value
C6_TwoPhase ==
    (result.op = "execute_command" /\ result.outcome = "returned")
      => /\ Len(sent) = 2
         /\ {kv \in sent[1].query : kv[1] = "mode"} = {<<"mode", "prepare">>}
         /\ {kv \in sent[2].query : kv[1] = "mode"} = {<<"mode", "execute">>}
         /\ LET n == sent[1].reply.children[1]
            IN  /\ n.tag = "SUCCESS"
                /\ {kv \in sent[2].query : kv[1] = "token"} =
                     {<<"token", IF n.text = None THEN "" ELSE n.text[1]>>}
         /\ Strip(sent[2].query) = Strip(sent[1].query)
         /\ <<"c", cmd.command>> \in sent[1].query
         /\ cmd.params \subseteq sent[1].query
         /\ result.value.wellformed
         /\ result.value = sent[2].reply

\* a command with parameters went through with the second token
C6_Witness ==
    /\ result.op = "execute_command" /\ result.outcome = "returned"
    /\ cmd.token = "tok2" /\ cmd.params # {}

\* every HTTP GET the library sends: requests and dump downloads
NextHttp ==
    \/ RateLimiter_wait
    \/ NSRequester_request
    \/ ResourceManager_download

SpecHttp == InitRequester /\ [][NextHttp]_vars

\* ------------------------------------------------------------- claim C20

\* C20 (as claimed): a request whose response lacks X-Ratelimit-Requests-Seen
\* still returns the response, keeps the stored count, and sets the lock anew
\* from that count
C20_MissingHeaderTolerated ==
    [][\A resp \in PlainResponses, lat \in 0..MaxLatency :
         (NSRequester_request /\ Transport(resp, lat) /\ ~resp.fail /\ resp.seen = None)
           => /\ request_outcome(resp) = "returned"
              /\ count' = count
              /\ lockTime' = update_lockTime(count, requestLimit, cooldownPeriod,
                                             spacePeriod, clock')]_vars

\* ------------------------------------------------------------- claims C1-C3

\* C1: whatever updates came before, RateLimiter.wait() hands time.sleep exactly
\* max(0, lockTime - now) and has not returned before the clock reached lockTime
C1_WaitReachesLock ==
    [][RateLimiter_wait => /\ slept' = Max(0, lockTime - clock)
                           /\ clock' >= lockTime]_vars

\* a wait that followed an update and had to sleep
C1_Witness == last = "wait" /\ slept > 0 /\ count > 0

\* C2 (as claimed): update(c) with any c >= 0 locks for cooldownPeriod when
\* c >= requestLimit and for spacePeriod otherwise, c being this call's count
C2_BranchOnObservedCount ==
    [][\A c \in 0..MaxCount :
         RateLimiter_update(Some(c)) =>
           lockTime' = clock + (IF c >= requestLimit THEN cooldownPeriod ELSE spacePeriod)]_vars

\* C3 (as claimed): every GET, a request or a dump download, was preceded by a
\* wait() made since the previous GET
C3_NoGetBypassesWait == http.via # "none" => http.lastGetWaited

\* C3 (amended): every GET sent through NSRequester.request was preceded by a
\* wait() made since the previous GET
C3_RequestsWait == http.via = "request" => http.lastGetWaited

\* a request was sent right after a dump download
C3_Witness == http.via = "request" /\ last = "request" /\ \E p \in Paths : files[p] # "absent"

\* ------------------------------------------------------------- update in two processes

\* two processes sharing one marker file, each calling update once for its own
\* resource with the default target
Processes == {1, 2}
Other(p) == CHOOSE q \in Processes : q # p
ProcResource(p) == IF p = 1 THEN ResourceNamed("nations.xml.gz")
                   ELSE ResourceNamed("cardlist_S1.xml.gz")

\* where a process stands in update: before open(markerFile, "r")
Starting(r) == [pc |-> "start", resource |-> r.name, branch |-> "none", marker |-> <<>>,
                outcome |-> "none", sawSaved |-> FALSE, savedFirst |-> FALSE]

\* the marker stores earlier runs can have left: none, an unreadable one, or a
\* store with entries written at tick 0
EarlierMarkers ==
    FirstMarkers \cup
    {[state |-> "json", entries |-> [n \in names |-> isoformat(0)]] :
        names \in SUBSET {r.name : r \in Resources}}

\* what `json.dump(marker, f)` leaves in the file (resources.py 216-218): the
\* dict of the writing process, whatever the file held
save_store_merged(marker, onDisk) == marker @@ onDisk.entries
save_store(marker, onDisk) == marker

\* update, from the start to the end of `json.load(f)` (resources.py 192-196):
\* the whole store is read and the branch follows from what was read
update_load(p) ==
    LET r == ProcResource(p)
        branch == update_branch(r)
    IN  /\ procs[p].pc = "start"
        /\ procs' = [procs EXCEPT ![p] =
                       [@ EXCEPT !.pc = IF branch = "JSONDecodeError" THEN "raised" ELSE "loaded",
                                 !.branch = branch,
                                 !.marker = markerFile.entries,
                                 !.outcome = IF branch = "JSONDecodeError" THEN branch ELSE "none",
                                 !.sawSaved = procs[Other(p)].pc = "done"]]
        /\ last' = "update_load"
        /\ UNCHANGED <<requestLimit, cooldownPeriod, spacePeriod, lockTime, count, clock, slept,
                       http, files, apiVars, pgVars, markerFile, res, run, iterator, outdatedCall>>

\* update, the branch itself (resources.py 197-214): download or verify, and
\* the entry set in the dict held in memory
update_fetch(p) ==
    LET r == ProcResource(p)
        me == procs[p]
        path == resolve(r, None)
        dl == \/ me.branch \in {"no_marker", "no_entry", "outdated"}
              \/ me.branch = "verify" /\ files[path] = "absent"
        marker == IF me.branch = "no_marker" THEN (r.name :> isoformat(clock))
                  ELSE IF me.branch \in {"no_entry", "outdated"}
                  THEN (r.name :> isoformat(clock)) @@ me.marker
                  ELSE me.marker
    IN  /\ me.pc = "loaded"
        /\ \E o \in IF dl THEN DownloadOutcomes ELSE {"ok"} :
             /\ files' = IF dl THEN [files EXCEPT ![path] = download_file_state(@, o)]
                         ELSE files
             /\ procs' = [procs EXCEPT ![p] =
                            IF dl /\ download_raises(o)
                            THEN [@ EXCEPT !.pc = "raised", !.outcome = "RequestException"]
                            ELSE [@ EXCEPT !.pc = "fetched", !.marker = marker]]
        /\ http' = IF dl THEN HttpGet(http, "download") ELSE http
        /\ last' = "update_fetch"
        /\ UNCHANGED <<requestLimit, cooldownPeriod, spacePeriod, lockTime, count, clock, slept,
                       apiVars, pgVars, markerFile, res, run, iterator, outdatedCall>>

\* update, the save (resources.py 216-218): the file is opened with "w" and the
\* whole dict is dumped
update_save(p) ==
    /\ procs[p].pc = "fetched"
    /\ markerFile' = [state |-> "json", entries |-> save_store(procs[p].marker, markerFile)]
    /\ procs' = [procs EXCEPT ![p] =
                   [@ EXCEPT !.pc = "done", !.outcome = "returned",
                             !.savedFirst = procs[Other(p)].pc # "done"]]
    /\ last' = "update_save"
    /\ UNCHANGED <<requestLimit, cooldownPeriod, spacePeriod, lockTime, count, clock, slept,
                   http, files, apiVars, pgVars, res, run, iterator, outdatedCall>>

\* two processes about to call update at the same time of day
InitRace ==
    /\ requestLimit = MaxLimit
    /\ cooldownPeriod = MaxCooldown
    /\ spacePeriod = MaxSpace
    /\ lockTime = 0
    /\ count = 0
    /\ clock \in 0..MaxNow
    /\ slept = 0
    /\ last = "init"
    /\ http = [waited |-> FALSE, lastGetWaited |-> FALSE, via |-> "none"]
    /\ files \in DiskWith({r.name : r \in Resources})
    /\ auth = NoAuth
    /\ result = NoResult
    /\ sent = <<>>
    /\ cmd = IdleCmd
    /\ server = <<>>
    /\ responseLimit = 1
    /\ pg = IdlePg
    /\ markerFile \in EarlierMarkers
    /\ res = NoRes
    /\ run = NoRun
    /\ iterator = NoIterator
    /\ outdatedCall = NoCall
    /\ procs = [p \in Processes |-> Starting(ProcResource(p))]

NextRace ==
    \E p \in Processes :
      \/ update_load(p)
      \/ update_fetch(p)
      \/ update_save(p)

SpecRace == InitRace /\ [][NextRace]_vars

\* ------------------------------------------------------------- claim C26

BothReturned == \A p \in Processes : procs[p].pc = "done"

\* C26: update holds no lock on the marker file between its load and its save.
\* When both processes have returned, the file holds the dict of the process
\* that saved last, and the entry of the other process is missing exactly when
\* the last saver had loaded the store before the other saved it and had not
\* found that entry there
C26_LastSaverWins ==
    BothReturned
      => \E p \in Processes :
           LET q == Other(p)
           IN  /\ procs[q].savedFirst /\ ~procs[p].savedFirst
               /\ markerFile = [state |-> "json", entries |-> procs[p].marker]
               /\ procs[p].resource \in DOMAIN markerFile.entries
               /\ procs[q].resource \notin DOMAIN markerFile.entries
                     <=> (~procs[p].sawSaved /\ procs[q].resource \notin DOMAIN procs[p].marker)
               /\ procs[p].sawSaved => procs[q].resource \in DOMAIN markerFile.entries

\* both updates returned and the store lacks the entry of one of the two
\* resources: a lost update
C26_Witness ==
    /\ BothReturned
    /\ \E q \in Processes : procs[q].resource \notin DOMAIN markerFile.entries

\* ------------------------------------------------------------- DumpManager.cards

\* DumpManager.cards(season, location) (resources.py 376-391) up to the return
\* of the lazy generator: verify only, the marker file is not opened
DumpManager_cards ==
    \E location \in Targets :
      LET resource == ResourceNamed("cardlist_S1.xml.gz")
      IN  \E o \in IF files[resolve(resource, location)] = "absent"
                   THEN DownloadOutcomes ELSE {"ok"} :
            verify(resource, location, o)

\* a DumpManager on a disk where earlier runs left dumps and a marker store
InitCards ==
    /\ requestLimit = MaxLimit
    /\ cooldownPeriod = MaxCooldown
    /\ spacePeriod = MaxSpace
    /\ lockTime = 0
    /\ count = 0
    /\ clock \in 0..MaxNow
    /\ slept = 0
    /\ last = "init"
    /\ http = [waited |-> FALSE, lastGetWaited |-> FALSE, via |-> "none"]
    /\ files \in DiskWith({r.name : r \in Resources})
    /\ auth = NoAuth
    /\ result = NoResult
    /\ sent = <<>>
    /\ cmd = IdleCmd
    /\ server = <<>>
    /\ responseLimit = 1
    /\ pg = IdlePg
    /\ markerFile \in EarlierMarkers
    /\ res = NoRes
    /\ run = NoRun
    /\ iterator = NoIterator
    /\ outdatedCall = NoCall
    /\ procs = NoProcs

\* updates of the current dumps and reads of the card list, in any order
NextCards ==
    \/ ResourceManager_update
    \/ DumpManager_cards

SpecCards == InitCards /\ [][NextCards]_vars

\* ------------------------------------------------------------- claim C29

\* the names a marker store has entries for
NamesIn(m) == IF m.state = "json" THEN DOMAIN m.entries ELSE {}

\* C29: update(r) leaves the entry of every other name in the store as it was
\* and adds no entry but r's; cards neither depends on the marker store (it
\* ends the same way with an unreadable store) nor changes it
C29_OtherEntriesKept ==
    [][/\ last' = "resource_update" =>
            /\ \A m \in NamesIn(markerFile) \ {res'.name} :
                  /\ m \in NamesIn(markerFile')
                  /\ markerFile'.entries[m] = markerFile.entries[m]
            /\ NamesIn(markerFile') \subseteq NamesIn(markerFile) \cup {res'.name}
       /\ DumpManager_cards =>
            /\ markerFile' = markerFile
            /\ res'.written = None
            /\ res'.outcome # "JSONDecodeError"]_vars

\* an update wrote the entry of its resource into a store that held an older
\* entry of the other resource
C29_Witness ==
    /\ last = "resource_update" /\ res.outcome = "returned" /\ res.downloaded
    /\ markerFile.entries[res.name] = isoformat(clock)
    /\ \E m \in NamesIn(markerFile) \ {res.name} :
          fromisoformat(markerFile.entries[m]) < clock

\* ------------------------------------------------------------- DailyResource.outdated

\* DailyResource.outdated(previous, current) evaluated (resources.py 118-137)
DailyResource_outdated_call ==
    /\ ~outdatedCall.done
    /\ outdatedCall' = [outdatedCall EXCEPT
                          !.done = TRUE,
                          !.result = DailyResource_outdated(outdatedCall.previous,
                                                            outdatedCall.current,
                                                            outdatedCall.updateTime)]
    /\ last' = "outdated"
    /\ UNCHANGED <<requestLimit, cooldownPeriod, spacePeriod, lockTime, count, clock, slept,
                   http, files, apiVars, pgVars, markerFile, res, run, iterator, procs>>

\* a DailyResource with any updateTime, asked about any previous <= current
InitOutdated ==
    /\ requestLimit = MaxLimit
    /\ cooldownPeriod = MaxCooldown
    /\ spacePeriod = MaxSpace
    /\ lockTime = 0
    /\ count = 0
    /\ clock = 0
    /\ slept = 0
    /\ last = "init"
    /\ http = [waited |-> FALSE, lastGetWaited |-> FALSE, via |-> "none"]
    /\ files = [p \in Paths |-> "absent"]
    /\ auth = NoAuth
    /\ result = NoResult
    /\ sent = <<>>
    /\ cmd = IdleCmd
    /\ server = <<>>
    /\ responseLimit = 1
    /\ pg = IdlePg
    /\ markerFile = NoMarker
    /\ res = NoRes
    /\ run = NoRun
    /\ iterator = NoIterator
    /\ \E previous \in 0..MaxStamp, updateTime \in 0..(TicksPerDay - 1) :
       \E current \in previous..MaxStamp :
         outdatedCall = [NoCall EXCEPT !.previous = previous, !.current = current,
                                       !.updateTime = updateTime]
    /\ procs = NoProcs

NextOutdated == DailyResource_outdated_call

SpecOutdated == InitOutdated /\ [][NextOutdated]_vars

\* ------------------------------------------------------------- claim C24

\* the first datetime strictly after previous whose time of day is updateTime
FirstAfter(previous, updateTime) ==
    CHOOSE t \in (previous + 1)..(previous + TicksPerDay) : t % TicksPerDay = updateTime

\* C24 (as claimed): for previous <= current, outdated(previous, current) is
\* true exactly when current is on or after the first occurrence of updateTime
\* strictly after previous, also when previous is at updateTime itself
C24_OutdatedFromFirstAfter ==
    outdatedCall.done
      => (outdatedCall.result
            <=> outdatedCall.current >= FirstAfter(outdatedCall.previous,
                                                   outdatedCall.updateTime))

\* ------------------------------------------------------------- claim C21

\* C21 (as claimed): after an update with a count below the limit, a wait()
\* made with no time elapsed since that update returns without sleeping
C21_WaitReturnsAtOnce ==
    [][(RateLimiter_wait /\ last = "update" /\ 0 < count /\ count < requestLimit)
         => slept' = 0]_vars

\* C21 (amended): after an update with a count below the limit, a wait() made
\* with no time elapsed since that update sleeps exactly spacePeriod, never
\* cooldownPeriod; it returns at once only when spacePeriod is 0
C21_WaitSleepsSpacePeriod ==
    [][(RateLimiter_wait /\ last = "update" /\ 0 < count /\ count < requestLimit)
         => /\ slept' = spacePeriod
            /\ clock' = clock + spacePeriod]_vars

\* a wait that ran right after an update below the limit and slept
C21_Witness ==
    /\ last = "wait" /\ slept = spacePeriod /\ spacePeriod > 0
    /\ 0 < count /\ count < requestLimit /\ lockTime = clock

\* ------------------------------------------------------------- claim C22

\* C22: an update that returns has written the marker store, whichever branch
\* it took; the store written holds an entry for the resource and is the store
\* on disk afterwards; on the branch that only verifies, it equals the store
\* that was on disk before
C22_MarkerAlwaysSaved ==
    [][(last' = "resource_update" /\ res'.outcome = "returned")
         => LET branch == update_branch(ResourceNamed(res'.name))
            IN  /\ branch \in {"no_marker", "no_entry", "outdated", "verify"}
                /\ res'.written # None
                /\ res'.name \in DOMAIN res'.written[1]
                /\ markerFile' = [state |-> "json", entries |-> res'.written[1]]
                /\ branch = "verify" => markerFile' = markerFile]_vars

\* the second of two updates in a row took the verifying branch and wrote the
\* store again
C22_Witness ==
    /\ last = "resource_update" /\ res.outcome = "returned" /\ ~res.downloaded
    /\ run.calls > 1 /\ run.later = 0
    /\ res.written = Some(markerFile.entries) /\ res.name \in DOMAIN markerFile.entries

\* ------------------------------------------------------------- claim C23

\* C23 (as claimed): a trades call without safe to which the caller passed its
\* own beforetime keeps requesting while pages are full: it returns, every page
\* but the last was full, every follow-up request carried the key of the last
\* item of the page before it, and the last page was short
C23_CallerCursorPaginates ==
    (Finished /\ ~pg.safe /\ pg.kind = "trades" /\ pg.param # None)
      => /\ pg.outcome = "returned"
         /\ Len(pg.rootList) = Requests
         /\ \A i \in 1..(Requests - 1) :
               /\ Len(pg.rootList[i]) = responseLimit
               /\ pg.cursors[i + 1] = Some(pg.rootList[i][responseLimit].key)
         /\ Len(pg.rootList[Requests]) < responseLimit

\* ------------------------------------------------------------- claim C25

\* C25 (as claimed): whatever the outcome of a GET sent by NSRequester.request
\* (a response of any status, a response without the rate-limit header, an
\* exception of the transport), RateLimiter.update has run once after it and
\* before the next wait: the lock is the one update computes at the time the
\* GET ended, and the count is the one the response reported, if it reported one
C25_UpdateAfterEveryGet ==
    [][\A resp \in PlainResponses, lat \in 0..MaxLatency :
         (NSRequester_request /\ Transport(resp, lat))
           => /\ lockTime' = update_lockTime(count', requestLimit, cooldownPeriod,
                                             spacePeriod, clock')
              /\ (~resp.fail /\ resp.seen # None) => count' = update_count(count, resp.seen)]_vars

\* ------------------------------------------------------------- claim C27

\* the entry of name in a marker store, None when the store has none
EntryOf(m, n) == IF m.state = "json" /\ n \in DOMAIN m.entries THEN Some(m.entries[n]) ELSE None

\* C27 (as claimed): update changes the entry of the resource only when its
\* download succeeded, leaving a complete file at the resolved path; when the
\* download got an error status or failed partway the entry is as it was
C27_EntryOnlyOnSuccess ==
    [][(last' = "resource_update" /\ EntryOf(markerFile', res'.name) # EntryOf(markerFile, res'.name))
         => /\ res'.downloaded
            /\ files'[res'.path] = "complete"]_vars

\* ------------------------------------------------------------- claim C28

\* C28: when update or verify has returned, a file is at the resolved path,
\* whichever branch ran and whichever target was given
C28_FilePresentAfterReturn ==
    (last \in {"resource_update", "resource_verify"} /\ res.outcome = "returned")
      => files[res.path] # "absent"

\* an update found a fresh entry, recorded when the dump went to its default
\* path, and downloaded the dump again to the path given as target
C28_Witness ==
    /\ last = "resource_update" /\ res.outcome = "returned" /\ res.downloaded
    /\ res.path = "custom.xml.gz" /\ res.name # res.path
    /\ files[res.name] # "absent" /\ files[res.path] # "absent"
    /\ res.name \in DOMAIN markerFile.entries
    /\ fromisoformat(markerFile.entries[res.name]) < clock

\* ------------------------------------------------------------- claim C30

\* C30: when shards_response on a Nation handle with an Auth is answered with a
\* status of 400 or more, the call raises the error of that status, the Auth
\* keeps its pin, autologin and password whatever session headers the response
\* carries, and the limiter holds the count of that response and the lock
\* computed from it when the response arrived
C30_ErrorKeepsSession ==
    [][\A resp \in AuthResponses :
         (/\ auth.present /\ ~resp.fail /\ resp.status >= 400 /\ resp.seen # None
          /\ result'.op = "shards_response" /\ result'.status = resp.status
          /\ shards_response_call("nation", "shard", resp))
           => /\ auth' = auth
              /\ result'.outcome \in {"ResourceError", "AuthError", "APIError"}
              /\ count' = update_count(count, resp.seen)
              /\ lockTime' = update_lockTime(count', requestLimit, cooldownPeriod,
                                             spacePeriod, clock')]_vars

\* an error response that carried X-Pin came back to a handle whose Auth had
\* no pin, and still has none, while the limiter took its count
C30_Witness ==
    /\ result.op = "shards_response" /\ result.handle = "nation" /\ result.status >= 400
    /\ result.outcome \in {"ResourceError", "AuthError", "APIError"}
    /\ auth.present /\ auth.pin = ""
    /\ Len(sent) = 1 /\ sent[1].replyPin # None
    /\ last = "request" /\ count > 0 /\ lockTime > clock

====
